---------------------------- MODULE Spec2Model ----------------------------
(***************************************************************************)
(* GPTSFTDataset (gpt_sft_dataset.py): template splitting, multi-field     *)
(* truncation, example assembly and batch collation.                       *)
(*                                                                         *)
(* Text is a sequence of one-character strings, so that index, slicing and *)
(* strip are computed as Python computes them.  A token id list is a       *)
(* sequence of integers.                                                   *)
(*                                                                         *)
(* Names the source reads but never binds are resolved to the binding of   *)
(* the same object elsewhere in the file: self.context_key (lines 200,     *)
(* 204) is self.context_keys (line 88), label_ids at line 334 is the list  *)
(* line 312 binds as answer_ids, self.truncation_method is the constructor *)
(* parameter of line 54, and random is the standard library module.  The   *)
(* metadata of an example (line 345) is left out.                          *)
(***************************************************************************)
EXTENDS Integers, Sequences, FiniteSets, TLC

VARIABLES
    cfg,             \* the dataset object's configuration (set in __init__)
    constructed,     \* how __init__ ended: "none", or the error it raised
    example,         \* the record last handed to _process_example
    prompt_strings,  \* _separate_template: the segments' texts
    prompt_keys,     \* _separate_template: the segments' keys
    prompt_starts,   \* the template position pi of the bucket each segment came from
    prompt_ids,      \* text_to_ids of each segment
    trunc,           \* what _multiple_truncation returned (or raised)
    processed,       \* what _process_example returned (or raised)
    batch,           \* the examples gathered for the next collate_fn call
    collated         \* what collate_fn returned

vars == <<cfg, constructed, example, prompt_strings, prompt_keys, prompt_starts, prompt_ids,
          trunc, processed, batch, collated>>

----------------------------------------------------------------------------
(* Bounds *)

\* longest context value of a record, in characters
MaxCtxLen == 3
\* longest label of a record, in characters
MaxLabelLen == 2
\* largest max_seq_length
MaxSeq == 5
\* largest virtual_tokens
MaxVirtual == 1
\* largest tokens_to_generate
MaxGen == 1
\* largest batch handed to collate_fn
MaxBatch == 2

----------------------------------------------------------------------------
(* Python's sequence primitives *)

Min(a, b) == IF a <= b THEN a ELSE b
Max(a, b) == IF a >= b THEN a ELSE b

\* s[i:j] for 0 <= i and any j >= 0 (0-based, end clipped to len(s))
Slice(s, i, j) == SubSeq(s, i + 1, Min(j, Len(s)))

\* s[i] with Python's wrap-around of a negative index (0-based)
PyAt(s, i) == IF i < 0 THEN s[Len(s) + i + 1] ELSE s[i + 1]

\* sub in s
Contains(s, sub) ==
    \E i \in 0..(Len(s) - Len(sub)) : Slice(s, i, i + Len(sub)) = sub

\* s.index(sub): the 0-based position of the first occurrence
Index(s, sub) ==
    CHOOSE i \in 0..(Len(s) - Len(sub)) :
        /\ Slice(s, i, i + Len(sub)) = sub
        /\ \A j \in 0..(i - 1) : Slice(s, j, j + Len(sub)) # sub

RECURSIVE LStrip(_)
LStrip(s) == IF s # <<>> /\ Head(s) = " " THEN LStrip(Tail(s)) ELSE s

RECURSIVE RStrip(_)
RStrip(s) ==
    IF s # <<>> /\ s[Len(s)] = " " THEN RStrip(SubSeq(s, 1, Len(s) - 1)) ELSE s

\* s.strip(' ')
Strip(s) == RStrip(LStrip(s))

RECURSIVE Flatten(_)
\* [i for ids in seqs for i in ids]
Flatten(seqs) == IF seqs = <<>> THEN <<>> ELSE Head(seqs) \o Flatten(Tail(seqs))

RECURSIVE SumLen(_)
\* sum(len(ids) for ids in seqs)
SumLen(seqs) == IF seqs = <<>> THEN 0 ELSE Len(Head(seqs)) + SumLen(Tail(seqs))

RECURSIVE Sorted(_)
\* sorted(s) for a list of integers
Sorted(s) ==
    IF s = <<>> THEN <<>>
    ELSE LET m == CHOOSE i \in 1..Len(s) : \A j \in 1..Len(s) : s[i] <= s[j]
         IN  <<s[m]>> \o Sorted(SubSeq(s, 1, m - 1) \o SubSeq(s, m + 1, Len(s)))

RECURSIVE MaxOf(_)
\* max(list) of a non-empty list
MaxOf(s) == IF Len(s) = 1 THEN s[1] ELSE Max(s[1], MaxOf(Tail(s)))

\* s[1:]
Rest(s) == SubSeq(s, 2, Len(s))

\* [x] * n
Repeat(x, n) == [i \in 1..n |-> x]

\* int(flag)
B2I(flag) == IF flag THEN 1 ELSE 0

----------------------------------------------------------------------------
(* The tokenizer (tokenizer_spec.TokenizerSpec): a character-level         *)
(* tokenizer, one token id per character of the vocabulary.                *)

Vocab ==
    <<" ", "{", "}", ":", "C", "Q", "A", "a", "b", "l", "u", "v", "w", "x", "y", "z", "p", "q", "r">>

BosId == 1
EosId == 2
SepId == 3

CharId(ch) == 3 + (CHOOSE i \in 1..Len(Vocab) : Vocab[i] = ch)

text_to_ids(text) == [i \in 1..Len(text) |-> CharId(text[i])]

----------------------------------------------------------------------------
(* _separate_template *)

TemplateKey == "<template>"

\* f'{{{key}}}'
Placeholder(key) == <<"{", key, "}">>

\* dict.get(k, default) on the dict built by zipping context_phs with vals:
\* a later duplicate key overwrites an earlier one
PhLookup(context_phs, vals, k, default) ==
    LET n  == Min(Len(context_phs), Len(vals))
        at == {i \in 1..n : context_phs[i] = k}
    IN  IF at = {} THEN default
        ELSE vals[CHOOSE i \in at : \A j \in at : j <= i]

\* lines 214-220
ContextPositions(c, context_phs) ==
    LET label_ph == Placeholder(c.label_key)
        pairs == Flatten([i \in 1..Len(context_phs) |->
                    <<Index(c.prompt_template, context_phs[i]),
                      Index(c.prompt_template, context_phs[i]) + Len(context_phs[i])>>])
    IN  Sorted(<<0>> \o pairs \o <<Index(c.prompt_template, label_ph)>>)

\* line 230-233
HasLeadingSpace(c, i, pi) ==
    IF i # 0 /\ c.space_sensitive
    THEN PyAt(c.prompt_template, pi - 1) = " " \/ PyAt(c.prompt_template, pi) = " "
    ELSE FALSE

RECURSIVE Buckets(_, _, _, _, _)
\* the loop of lines 223-239, from bucket i (0-based) on; returns the strings
\* and keys appended, each with its bucket's start pi
Buckets(c, context_phs, contexts, context_positions, i) ==
    IF i >= Len(context_positions) - 1 THEN <<>>
    ELSE LET pi  == context_positions[i + 1]
             pj  == context_positions[i + 2]
             raw == Slice(c.prompt_template, pi, pj)
             cs  == Strip(PhLookup(context_phs, contexts, raw, raw))
             key == PhLookup(context_phs, c.context_keys, raw, TemplateKey)
             rest == Buckets(c, context_phs, contexts, context_positions, i + 1)
         IN  IF Len(cs) > 0
             THEN <<[s |-> IF HasLeadingSpace(c, i, pi) THEN <<" ">> \o cs ELSE cs,
                     k |-> key, p |-> pi]>> \o rest
             ELSE rest

\* _separate_template(contexts, label): err, prompt_strings, prompt_keys, and
\* for the properties the bucket start of every segment
SeparateTemplate(c, contexts, label) ==
    LET context_phs == [i \in 1..Len(c.context_keys) |-> Placeholder(c.context_keys[i])]
        label_ph == Placeholder(c.label_key)
        tpl == c.prompt_template
        fail(msg) == [err |-> msg, prompt_strings |-> <<>>, prompt_keys |-> <<>>,
                      prompt_starts |-> <<>>]
    IN  IF \E i \in 1..Len(context_phs) : ~Contains(tpl, context_phs[i])
        THEN fail("context placeholder must in prompt_template")
        ELSE IF ~Contains(tpl, label_ph)
        THEN fail("label placeholder must in prompt_template")
        ELSE IF Index(tpl, label_ph) # Len(tpl) - Len(label_ph)
        THEN fail("label placeholder must be at the end of prompt_template")
        ELSE
          LET context_positions == ContextPositions(c, context_phs)
              bs == Buckets(c, context_phs, contexts, context_positions, 0)
              pj == context_positions[Len(context_positions)]
              has_leading_space ==
                  IF c.space_sensitive THEN PyAt(tpl, pj - 1) = " " ELSE FALSE
          IN  [err |-> "none",
               prompt_strings |->
                   [i \in 1..Len(bs) |-> bs[i].s]
                   \o <<IF has_leading_space THEN <<" ">> \o label ELSE label>>,
               prompt_keys |-> [i \in 1..Len(bs) |-> bs[i].k] \o <<c.label_key>>,
               prompt_starts |-> [i \in 1..Len(bs) |-> bs[i].p] \o <<pj>>]

----------------------------------------------------------------------------
(* _multiple_truncation *)

\* lines 260-267 with the EOS token counted whether or not add_eos is set
TotalIds_EosAlways(c, context_ids, label_ids) ==
    c.virtual_tokens
    + SumLen(context_ids)
    + Max(Len(label_ids), c.tokens_to_generate)
    + B2I(c.add_bos)
    + B2I(c.add_sep)
    + 1

\* lines 260-267 with the BOS token left out of the count
TotalIds_NoBos(c, context_ids, label_ids) ==
    c.virtual_tokens
    + SumLen(context_ids)
    + Max(Len(label_ids), c.tokens_to_generate)
    + B2I(c.add_sep)
    + B2I(c.add_eos)

\* lines 260-267
TotalIds(c, context_ids, label_ids) ==
    c.virtual_tokens
    + SumLen(context_ids)
    + Max(Len(label_ids), c.tokens_to_generate)
    + B2I(c.add_bos)
    + B2I(c.add_sep)
    + B2I(c.add_eos)

\* lines 277-280 with i running over range(num_fields), not reversed
TruncationLengthList_Forward(truncation_length_total, num_fields) ==
    [p \in 1..num_fields |->
        LET i == p - 1
        IN  (truncation_length_total \div num_fields)
            + (IF i < truncation_length_total % num_fields THEN 1 ELSE 0)]

\* lines 277-280: the list built for i in range(num_fields)[::-1]
TruncationLengthList(truncation_length_total, num_fields) ==
    [p \in 1..num_fields |->
        LET i == num_fields - p
        IN  (truncation_length_total \div num_fields)
            + (IF i < truncation_length_total % num_fields THEN 1 ELSE 0)]

\* lines 286-293 with 'left' given the offset of 'right'
IdsOffset_LeftZero(truncation_method, truncation_length, draw) ==
    IF truncation_method = "random" THEN draw
    ELSE 0

\* lines 286-293: the window's offset; draw is the value random.randint returned
IdsOffset(truncation_method, truncation_length, draw) ==
    IF truncation_method = "random" THEN draw
    ELSE IF truncation_method = "left" THEN truncation_length
    ELSE 0

\* lines 295-296 cutting truncation_length tokens out at ids_offset instead
\* of keeping the tokens from ids_offset on
Window_CutBlock(ids, ids_offset, truncation_length) ==
    Slice(ids, 0, ids_offset) \o Slice(ids, ids_offset + truncation_length, Len(ids))

\* lines 295-296
Window(ids, ids_offset, truncation_length) ==
    LET ids_length == Len(ids) - truncation_length
    IN  Slice(ids, ids_offset, ids_offset + ids_length)

\* the assertion of line 285 with the comparison off by one
LongEnough_OffByOne(ids, truncation_length) == Len(ids) + 1 >= truncation_length

\* line 285: the assertion's condition
LongEnough(ids, truncation_length) == Len(ids) >= truncation_length

RECURSIVE TruncLoop(_, _, _, _, _, _, _)
\* the loop of lines 282-296 from segment i (1-based) on.  lens[k] records the
\* truncation_length popped for segment k (0 when nothing was popped for it).
TruncLoop(c, context_ids, keys, truncation_length_list, draws, lens, i) ==
    IF i > Min(Len(context_ids), Len(keys))
    THEN [err |-> "none", context_ids |-> context_ids, lens |-> lens]
    ELSE IF keys[i] \in {c.truncation_fields[k] : k \in 1..Len(c.truncation_fields)}
    THEN IF truncation_length_list = <<>>
         THEN [err |-> "pop from empty list", context_ids |-> context_ids, lens |-> lens]
         ELSE
           LET ids == context_ids[i]
               truncation_length == truncation_length_list[Len(truncation_length_list)]
               popped == SubSeq(truncation_length_list, 1, Len(truncation_length_list) - 1)
               lens2 == [lens EXCEPT ![i] = truncation_length]
           IN  IF ~LongEnough(ids, truncation_length)
               THEN [err |-> "is not long enough to truncate",
                     context_ids |-> context_ids, lens |-> lens2]
               ELSE IF c.truncation_method \notin {"random", "left", "right"}
               THEN [err |-> "is not supported",
                     context_ids |-> context_ids, lens |-> lens2]
               ELSE TruncLoop(c,
                        [context_ids EXCEPT ![i] =
                            Window(ids,
                                   IdsOffset(c.truncation_method, truncation_length, draws[i]),
                                   truncation_length)],
                        keys, popped, draws, lens2, i + 1)
    ELSE TruncLoop(c, context_ids, keys, truncation_length_list, draws, lens, i + 1)

\* _multiple_truncation(prompt_ids, prompt_keys).  draws[k] is what
\* random.randint(0, truncation_length) returns for segment k.
\* Returns err, the flat context_ids, label_ids, and for the properties:
\* total_ids, the per-segment lists before flattening (segs) and lens.
MultipleTruncation(c, p_ids, p_keys, draws) ==
    LET context_ids == SubSeq(p_ids, 1, Len(p_ids) - 1)
        label_ids == p_ids[Len(p_ids)]
        keys == SubSeq(p_keys, 1, Len(p_keys) - 1)
        total_ids == TotalIds(c, context_ids, label_ids)
        zeros == [k \in 1..Len(context_ids) |-> 0]
        r == IF total_ids > c.max_seq_length
             THEN TruncLoop(c, context_ids, keys,
                      TruncationLengthList(total_ids - c.max_seq_length,
                                           Len(c.truncation_fields)),
                      draws, zeros, 1)
             ELSE [err |-> "none", context_ids |-> context_ids, lens |-> zeros]
    IN  [err |-> r.err,
         context_ids |-> IF r.err = "none" THEN Flatten(r.context_ids) ELSE <<>>,
         label_ids |-> IF r.err = "none" THEN label_ids ELSE <<>>,
         total_ids |-> total_ids,
         segs |-> r.context_ids,
         lens |-> r.lens]

----------------------------------------------------------------------------
(* _process_example *)

\* lines 314-317 with the placeholders put behind the context ids
WithVirtualTokens_Behind(c, context_ids) ==
    IF c.virtual_tokens # 0
    THEN context_ids \o Repeat(EosId, c.virtual_tokens)
    ELSE context_ids

\* lines 314-317
WithVirtualTokens(c, context_ids) ==
    IF c.virtual_tokens # 0
    THEN Repeat(EosId, c.virtual_tokens) \o context_ids
    ELSE context_ids

\* lines 320-332 without the increment of line 332
AnswerStartIdx_NoSep(c, context_ids) ==
    Len(context_ids) + (IF c.add_bos THEN 1 ELSE 0)

\* lines 320-332: answer_start_idx, from the context ids of line 317
AnswerStartIdx(c, context_ids) ==
    Len(context_ids) + (IF c.add_bos THEN 1 ELSE 0) + (IF c.add_sep THEN 1 ELSE 0)

\* lines 322-332: BOS in front, SEP behind (applied alike to context_ids and input_ids)
WithBosSep(c, ids) ==
    LET b == IF c.add_bos THEN <<BosId>> \o ids ELSE ids
    IN  IF c.add_sep THEN b \o <<SepId>> ELSE b

\* lines 334-338
WithLabelEos(c, input_ids, label_ids) ==
    LET i == input_ids \o label_ids
    IN  IF c.add_eos THEN i \o <<EosId>> ELSE i

\* lines 340-342 keeping the last max_seq_length tokens instead of the first
Clamp_Left(c, input_ids) ==
    IF Len(input_ids) > c.max_seq_length
    THEN Slice(input_ids, Len(input_ids) - c.max_seq_length, Len(input_ids))
    ELSE input_ids

\* lines 340-342
Clamp(c, input_ids) ==
    IF Len(input_ids) > c.max_seq_length
    THEN Slice(input_ids, 0, c.max_seq_length)
    ELSE input_ids

NoExample(msg) ==
    [err |-> msg, input_ids |-> <<>>, answer_start_idx |-> 0, context_ids |-> <<>>,
     context_length |-> 0, answer_ids |-> <<>>, assembled |-> <<>>]

\* lines 314-356, given what _multiple_truncation returned.  assembled is the
\* input_ids of line 338, before the clamp of lines 340-342.
Assemble(c, tr) ==
    LET context_ids == WithVirtualTokens(c, tr.context_ids)
        assembled == WithLabelEos(c, WithBosSep(c, context_ids), tr.label_ids)
    IN  [err |-> "none",
         input_ids |-> Clamp(c, assembled),
         answer_start_idx |-> AnswerStartIdx(c, context_ids),
         context_ids |-> WithBosSep(c, context_ids),
         context_length |-> Len(WithBosSep(c, context_ids)),
         answer_ids |-> tr.label_ids,
         assembled |-> assembled]

NoTruncation(msg) ==
    [err |-> msg, context_ids |-> <<>>, label_ids |-> <<>>, total_ids |-> 0,
     segs |-> <<>>, lens |-> <<>>]

\* line 307
Contexts(c, ex) == [i \in 1..Len(c.context_keys) |-> Strip(ex[c.context_keys[i]])]

\* what random.randint(0, truncation_length) can return during the call: one
\* draw per segment, 0 where the loop draws nothing (tr0 is the call's outcome
\* under all-zero draws: the popped lengths do not depend on the draws)
DrawsOf(c, tr0) ==
    LET zero == [k \in DOMAIN tr0.lens |-> 0]
    IN  IF c.truncation_method # "random" \/ tr0.err # "none" THEN {zero}
        ELSE {d \in [DOMAIN tr0.lens -> 0..MaxOf(<<0>> \o tr0.lens)] :
                 \A k \in DOMAIN d : d[k] <= tr0.lens[k]}

\* lines 310-311
PromptIds(p_strings) == [i \in 1..Len(p_strings) |-> text_to_ids(p_strings[i])]

\* _process_example(ex): lines 301-356
ProcessExample(ex) ==
    \E st \in {SeparateTemplate(cfg, Contexts(cfg, ex), ex[cfg.label_key])} :
        /\ example' = ex
        /\ prompt_strings' = st.prompt_strings
        /\ prompt_keys' = st.prompt_keys
        /\ prompt_starts' = st.prompt_starts
        /\ IF st.err # "none"
           THEN /\ prompt_ids' = <<>>
                /\ trunc' = NoTruncation("not called")
                /\ processed' = NoExample(st.err)
           ELSE \E p_ids \in {PromptIds(st.prompt_strings)} :
                \E tr0 \in {MultipleTruncation(cfg, p_ids, st.prompt_keys,
                                                [k \in 1..(Len(p_ids) - 1) |-> 0])} :
                \E draws \in DrawsOf(cfg, tr0) :
                \E tr \in {MultipleTruncation(cfg, p_ids, st.prompt_keys, draws)} :
                    /\ prompt_ids' = p_ids
                    /\ trunc' = tr
                    /\ processed' = IF tr.err # "none"
                                    THEN NoExample(tr.err)
                                    ELSE Assemble(cfg, tr)

----------------------------------------------------------------------------
(* collate_fn *)

\* line 363-364 rounding down instead of up
CeilToNearest_Floor(n, m) == (n \div m) * m

\* line 363-364
CeilToNearest(n, m) == ((n + m - 1) \div m) * m

\* lines 366-371
CollateItem(item, max_length, pad_id) ==
    [i \in 1..Len(item) |-> item[i] \o Repeat(pad_id, max_length - Len(item[i]))]

\* lines 373-382 with > for >= at line 378
BuildLossMask_Strict(c, processed_example) ==
    IF c.answer_only_loss
    THEN [k \in 1..Len(processed_example.input_ids) |->
             IF (k - 1) > processed_example.answer_start_idx THEN 1 ELSE 0]
    ELSE Repeat(1, Len(processed_example.input_ids))

\* lines 373-382
BuildLossMask(c, processed_example) ==
    IF c.answer_only_loss
    THEN [k \in 1..Len(processed_example.input_ids) |->
             IF (k - 1) >= processed_example.answer_start_idx THEN 1 ELSE 0]
    ELSE Repeat(1, Len(processed_example.input_ids))

\* lines 405-411
MaxLength(c, input_ids, contexts) ==
    LET max_length == Max(MaxOf([i \in 1..Len(input_ids) |-> Len(input_ids[i])]),
                          MaxOf([i \in 1..Len(contexts) |-> Len(contexts[i])])
                              + c.tokens_to_generate)
    IN  IF c.pad_to_max_length
        THEN c.max_seq_length
        ELSE Min(c.max_seq_length, CeilToNearest(max_length, 8))

\* torch.LongTensor(rows) accepts a list of rows of one common length
Rectangular(rows) == \A i, j \in 1..Len(rows) : Len(rows[i]) = Len(rows[j])

\* collate_fn(b) for a non-empty b: lines 396-437.  loss_mask_rows is the
\* loss_mask of line 402, before it is padded.  The call raises from the
\* assertion of line 411 or from torch.LongTensor (lines 417-423).
Collate(c, b) ==
    LET input_ids == [i \in 1..Len(b) |-> Slice(b[i].input_ids, 0, Len(b[i].input_ids) - 1)]
        labels    == [i \in 1..Len(b) |-> Rest(b[i].input_ids)]
        contexts  == [i \in 1..Len(b) |-> b[i].context_ids]
        answers   == [i \in 1..Len(b) |-> b[i].answer_ids]
        loss_mask == [i \in 1..Len(b) |-> Rest(BuildLossMask(c, b[i]))]
        max_length == MaxLength(c, input_ids, contexts)
        out == [tokens    |-> CollateItem(input_ids, max_length, EosId),
                labels    |-> CollateItem(labels, max_length, EosId),
                loss_mask |-> CollateItem(loss_mask, max_length, 0),
                contexts  |-> CollateItem(contexts, max_length, EosId),
                answers   |-> CollateItem(answers, max_length, EosId)]
    IN  [err |-> IF ~(max_length <= c.max_seq_length)
                 THEN "assert max_length <= max_seq_length"
                 ELSE IF /\ Rectangular(out.tokens) /\ Rectangular(out.labels)
                         /\ Rectangular(out.loss_mask) /\ Rectangular(out.contexts)
                         /\ Rectangular(out.answers)
                 THEN "none" ELSE "expected sequence of equal length",
         max_length |-> max_length,
         tokens |-> out.tokens,
         labels |-> out.labels,
         loss_mask |-> out.loss_mask,
         contexts |-> out.contexts,
         answers |-> out.answers,
         loss_mask_rows |-> loss_mask,
         context_lengths |-> [i \in 1..Len(b) |-> b[i].context_length],
         position_ids |-> [i \in 1..Len(b) |-> [k \in 1..max_length |-> k - 1]]]

NotCollated ==
    [err |-> "not called", max_length |-> 0, tokens |-> <<>>, labels |-> <<>>,
     loss_mask |-> <<>>, contexts |-> <<>>, answers |-> <<>>, loss_mask_rows |-> <<>>,
     context_lengths |-> <<>>, position_ids |-> <<>>]

----------------------------------------------------------------------------
(* Configurations and records *)

\* "{a} {b} {l}"
TplAB == <<"{", "a", "}", " ", "{", "b", "}", " ", "{", "l", "}">>
\* "{a} {l}"
TplA == <<"{", "a", "}", " ", "{", "l", "}">>
\* "Q:{a} {l}"
TplQA == <<"Q", ":", "{", "a", "}", " ", "{", "l", "}">>
\* "C: {a} Q: {b} A: {l}", the docstring's template (lines 188-194)
TplDoc == <<"C", ":", " ", "{", "a", "}", " ", "Q", ":", " ", "{", "b", "}", " ",
            "A", ":", " ", "{", "l", "}">>
\* "{a}{b}:{l}"
TplTight == <<"{", "a", "}", "{", "b", "}", ":", "{", "l", "}">>
\* " {a}  {b} {l}"
TplLead == <<" ", "{", "a", "}", " ", " ", "{", "b", "}", " ", "{", "l", "}">>

Layout(tpl, keys, fields) ==
    [prompt_template |-> tpl, context_keys |-> keys, truncation_fields |-> fields]

\* set(xs) of a list
SetOf(xs) == {xs[i] : i \in 1..Len(xs)}

\* lines 104-110: a legacy checkpoint's truncation field 'context' is read as
\* the context key 'input'
LegacyFields(c) ==
    IF /\ Len(c.truncation_fields) = 1
       /\ Len(c.context_keys) = 1
       /\ c.context_keys[1] = "input"
       /\ c.truncation_fields[1] = "context"
    THEN [c EXCEPT !.truncation_fields[1] = c.context_keys[1]]
    ELSE c

\* __init__ (lines 78-129) on the constructor's arguments c: the object's
\* configuration and how the call ended.  The only checks are the assertions
\* of line 97 (a template is given) and line 111.
InitDataset(c) ==
    LET o == LegacyFields(c)
    IN  [cfg |-> o,
         err |-> IF SetOf(o.truncation_fields) \subseteq SetOf(o.context_keys)
                 THEN "none"
                 ELSE "truncation_fields must in context_keys"]

Layouts ==
    { Layout(TplAB, <<"a", "b">>, <<"a">>),
      Layout(TplAB, <<"a", "b">>, <<"b">>),
      Layout(TplAB, <<"a", "b">>, <<"a", "b">>),
      Layout(TplQA, <<"a">>, <<"a">>) }

TemplateLayouts ==
    { Layout(TplDoc, <<"a", "b">>, <<"a", "b">>),
      Layout(TplTight, <<"a", "b">>, <<"a", "b">>),
      Layout(TplLead, <<"a", "b">>, <<"a", "b">>) }

CollateLayouts == { Layout(TplA, <<"a">>, <<"a">>) }

\* "{b} {a} {l}": the template's order is not that of context_keys
TplBA == <<"{", "b", "}", " ", "{", "a", "}", " ", "{", "l", "}">>
\* "{a} {b} {c} {l}"
TplABC == <<"{", "a", "}", " ", "{", "b", "}", " ", "{", "c", "}", " ", "{", "l", "}">>

\* several truncation fields
TruncLayouts ==
    { Layout(TplBA, <<"a", "b">>, <<"a", "b">>),
      Layout(TplABC, <<"a", "b", "c">>, <<"a", "b", "c">>),
      Layout(TplABC, <<"a", "b", "c">>, <<"c", "a">>),
      Layout(TplBA, <<"a", "b">>, <<"a", "a">>) }

\* "{a} {b}": no label placeholder
TplNoLabel == <<"{", "a", "}", " ", "{", "b", "}">>
\* "{l} {a}": the label placeholder does not end the template
TplLabelFirst == <<"{", "l", "}", " ", "{", "a", "}">>
\* "{a} {a} {l}": a context placeholder twice
TplTwice == <<"{", "a", "}", " ", "{", "a", "}", " ", "{", "l", "}">>
\* "{input} {l}", with the key as one symbol
TplInput == <<"{", "input", "}", " ", "{", "l", "}">>

\* constructor arguments, sound and faulty
ConfigLayouts ==
    { Layout(TplA, <<"a">>, <<"a">>),
      Layout(TplNoLabel, <<"a", "b">>, <<"a">>),
      Layout(TplLabelFirst, <<"a">>, <<"a">>),
      Layout(TplA, <<"a", "b">>, <<"a">>),
      Layout(TplTwice, <<"a">>, <<"a">>),
      Layout(TplA, <<"a">>, <<"b">>),
      Layout(TplInput, <<"input">>, <<"context">>) }

Methods == {"left", "right", "random", "middle"}

Config(layout, method, max_seq, bos, eos, sep, virt, gen, aol, pad, sens) ==
    [prompt_template    |-> layout.prompt_template,
     context_keys       |-> layout.context_keys,
     label_key          |-> "l",
     truncation_fields  |-> layout.truncation_fields,
     truncation_method  |-> method,
     max_seq_length     |-> max_seq,
     add_bos            |-> bos,
     add_eos            |-> eos,
     add_sep            |-> sep,
     virtual_tokens     |-> virt,
     tokens_to_generate |-> gen,
     answer_only_loss   |-> aol,
     pad_to_max_length  |-> pad,
     space_sensitive    |-> sens]

\* the letters a record's value for key is written with
Letters(key) ==
    IF key = "a" THEN <<"u", "v", "w">>
    ELSE IF key = "b" THEN <<"x", "y", "z">>
    ELSE <<"p", "q", "r">>

Text(key, n) == [i \in 1..n |-> Letters(key)[((i - 1) % 3) + 1]]

Keys(c) == {c.context_keys[i] : i \in 1..Len(c.context_keys)} \cup {c.label_key}

\* the lengths a record's value for key is drawn from (one choice for a key
\* the configuration does not use)
Lens(c, key, max) == IF key \in Keys(c) THEN 0..max ELSE {0}

\* a record whose values are plain words of na, nb and nl characters
Record(c, na, nb, nl) ==
    [k \in Keys(c) |-> Text(k, IF k = c.label_key THEN nl ELSE IF k = "a" THEN na ELSE nb)]

\* a word, or the word with a space in front (v = 1) or behind (v = 2)
Spaced(key, n, v) ==
    IF v = 1 THEN <<" ">> \o Text(key, n)
    ELSE IF v = 2 THEN Text(key, n) \o <<" ">>
    ELSE Text(key, n)

\* a record whose values may carry a space in front or behind
SpacedRecord(c, na, nb, nl) ==
    [k \in Keys(c) |-> IF k = c.label_key THEN Spaced(k, nl[1], nl[2])
                       ELSE IF k = "a" THEN Spaced(k, na[1], na[2])
                       ELSE Spaced(k, nb[1], nb[2])]

----------------------------------------------------------------------------
(* The state machine *)

NoCall ==
    /\ example = <<>>
    /\ prompt_strings = <<>>
    /\ prompt_keys = <<>>
    /\ prompt_starts = <<>>
    /\ prompt_ids = <<>>
    /\ trunc = NoTruncation("not called")
    /\ processed = NoExample("not called")
    /\ batch = <<>>
    /\ collated = NotCollated

\* __init__ (lines 78-96), record processing in view
Init ==
    /\ cfg \in {Config(layout, method, max_seq, bos, eos, sep, virt, gen, TRUE, FALSE, FALSE) :
                   layout \in Layouts, method \in Methods,
                   max_seq \in {MaxSeq - 3, MaxSeq},
                   bos \in BOOLEAN, eos \in BOOLEAN, sep \in BOOLEAN,
                   virt \in 0..MaxVirtual, gen \in 0..MaxGen}
    /\ constructed = InitDataset(cfg).err
    /\ NoCall

\* __init__ (lines 78-96), template splitting in view
InitTemplate ==
    /\ cfg \in {Config(layout, "right", 2 * MaxSeq, FALSE, TRUE, FALSE, 0, 0, TRUE, FALSE, sens) :
                   layout \in TemplateLayouts, sens \in BOOLEAN}
    /\ constructed = InitDataset(cfg).err
    /\ NoCall

\* __init__ (lines 78-96), collation in view
InitCollate ==
    /\ cfg \in {Config(layout, "right", max_seq, bos, eos, FALSE, 0, gen, aol, pad, FALSE) :
                   layout \in CollateLayouts, max_seq \in {MaxSeq - 3, MaxSeq},
                   bos \in BOOLEAN, eos \in BOOLEAN, gen \in 0..MaxGen,
                   aol \in BOOLEAN, pad \in BOOLEAN}
    /\ constructed = InitDataset(cfg).err
    /\ NoCall

\* __init__ (lines 78-96), truncation of several fields in view
InitTrunc ==
    /\ cfg \in {Config(layout, method, max_seq, FALSE, eos, FALSE, 0, gen, TRUE, FALSE, FALSE) :
                   layout \in TruncLayouts, method \in {"left", "right", "random"},
                   max_seq \in {MaxSeq - 3, MaxSeq},
                   eos \in BOOLEAN, gen \in 0..MaxGen}
    /\ constructed = InitDataset(cfg).err
    /\ NoCall

\* __init__ (lines 78-96), the padded length of a batch in view: the docstring's
\* template, whose examples are 7 to 16 tokens long, and sequence lengths
\* above 8
InitMaxLength ==
    /\ cfg \in {Config(layout, "right", max_seq, TRUE, eos, FALSE, 0, gen, TRUE, pad, FALSE) :
                   layout \in {Layout(TplDoc, <<"a", "b">>, <<"a", "b">>)},
                   max_seq \in {2 * MaxSeq, 4 * MaxSeq},
                   eos \in BOOLEAN, gen \in 0..MaxGen, pad \in BOOLEAN}
    /\ constructed = InitDataset(cfg).err
    /\ NoCall

\* the constructor's arguments, before __init__ has run
InitConfig ==
    /\ cfg \in {Config(layout, method, max_seq, FALSE, eos, FALSE, 0, 0, TRUE, FALSE, FALSE) :
                   layout \in ConfigLayouts, method \in Methods,
                   max_seq \in {MaxSeq - 3, MaxSeq}, eos \in BOOLEAN}
    /\ constructed = "not constructed"
    /\ NoCall

\* GPTSFTDataset(...): __init__ (lines 78-129)
Construct ==
    /\ constructed = "not constructed"
    /\ cfg' = InitDataset(cfg).cfg
    /\ constructed' = InitDataset(cfg).err
    /\ UNCHANGED <<example, prompt_strings, prompt_keys, prompt_starts, prompt_ids,
                   trunc, processed, batch, collated>>

\* __getitem__(idx) on a record ex (lines 154-173)
GetItem(ex) ==
    /\ constructed = "none"
    /\ processed = NoExample("not called")
    /\ ProcessExample(ex)
    /\ UNCHANGED <<cfg, constructed, batch, collated>>

\* the data loader fetches one more example of the batch
Fetch(ex) ==
    /\ constructed = "none"
    /\ Len(batch) < MaxBatch
    /\ collated = NotCollated
    /\ ProcessExample(ex)
    /\ processed'.err = "none"
    /\ batch' = Append(batch, processed')
    /\ UNCHANGED <<cfg, constructed, collated>>

\* the data loader hands the batch to collate_fn (lines 396-437)
CollateFn ==
    /\ constructed = "none"
    /\ batch # <<>>
    /\ collated = NotCollated
    /\ collated' = Collate(cfg, batch)
    /\ UNCHANGED <<cfg, constructed, example, prompt_strings, prompt_keys, prompt_starts,
                   prompt_ids, trunc, processed, batch>>

Next ==
    \E na \in Lens(cfg, "a", MaxCtxLen), nb \in Lens(cfg, "b", MaxCtxLen),
       nl \in 0..MaxLabelLen :
        GetItem(Record(cfg, na, nb, nl))

NextTemplate ==
    \E na \in (0..MaxLabelLen) \X (0..2), nb \in (0..MaxLabelLen) \X (0..2),
       nl \in (0..MaxLabelLen) \X (0..2) :
        GetItem(SpacedRecord(cfg, na, nb, nl))

\* the batch's records have an empty context or one of full length
NextCollate ==
    \/ \E na \in {0, MaxCtxLen}, nl \in 0..MaxLabelLen : Fetch(Record(cfg, na, 0, nl))
    \/ CollateFn

\* construction, then one record
NextConfig ==
    \/ Construct
    \/ \E na \in 0..MaxCtxLen, nb \in 0..MaxCtxLen, nl \in 0..MaxLabelLen :
          GetItem(Record(cfg, na, nb, nl))

Spec == Init /\ [][Next]_vars

SpecConfig == InitConfig /\ [][NextConfig]_vars

SpecTrunc == InitTrunc /\ [][Next]_vars

\* the batch's records have empty fields or fields of full length
NextMaxLength ==
    \/ \E na \in {0, MaxCtxLen}, nb \in {0, MaxCtxLen}, nl \in 0..MaxLabelLen :
          Fetch(Record(cfg, na, nb, nl))
    \/ CollateFn

SpecMaxLength == InitMaxLength /\ [][NextMaxLength]_vars

SpecTemplate == InitTemplate /\ [][NextTemplate]_vars

SpecCollate == InitCollate /\ [][NextCollate]_vars

----------------------------------------------------------------------------
(* Properties of _multiple_truncation and _process_example (Spec) *)

\* _multiple_truncation was called and returned its two lists
TruncReturned == trunc.err = "none"

\* _process_example returned an example
ExampleReturned == processed.err = "none"

\* the context segments handed to _multiple_truncation
ContextSegs == SubSeq(prompt_ids, 1, Len(prompt_ids) - 1)

\* the label's token ids handed to _multiple_truncation
LabelSeg == IF prompt_ids = <<>> THEN <<>> ELSE prompt_ids[Len(prompt_ids)]

FieldSet == {cfg.truncation_fields[k] : k \in 1..Len(cfg.truncation_fields)}

\* the segments of the record that belong to a truncatable field
Truncatable == {k \in 1..Len(ContextSegs) : prompt_keys[k] \in FieldSet}

\* the number of tokens the call removed from segment k
Removed(k) == Len(prompt_ids[k]) - Len(trunc.segs[k])

RECURSIVE SumRemoved(_)
SumRemoved(ks) ==
    IF ks = {} THEN 0
    ELSE LET k == CHOOSE x \in ks : TRUE IN Removed(k) + SumRemoved(ks \ {k})

\* totalIds as the specification words it, from the call's arguments
BudgetNeeded(context_len) ==
    cfg.virtual_tokens + context_len
    + Max(Len(LabelSeg), cfg.tokens_to_generate)
    + B2I(cfg.add_bos) + B2I(cfg.add_sep) + B2I(cfg.add_eos)

OverBudget == BudgetNeeded(SumLen(ContextSegs)) > cfg.max_seq_length

Deficit == BudgetNeeded(SumLen(ContextSegs)) - cfg.max_seq_length

C2_ReturnedContextFitsBudget ==
    TruncReturned => BudgetNeeded(Len(trunc.context_ids)) <= cfg.max_seq_length

C8_WithinBudgetIsNoOp ==
    (trunc.err # "not called" /\ ~OverBudget) =>
        /\ TruncReturned
        /\ trunc.context_ids = Flatten(ContextSegs)
        /\ trunc.label_ids = LabelSeg

\* C8 witness: a record exactly at the budget with a non-empty truncatable field
C8_Witness ==
    /\ TruncReturned
    /\ BudgetNeeded(SumLen(ContextSegs)) = cfg.max_seq_length
    /\ \E k \in Truncatable : Len(prompt_ids[k]) > 0
    /\ trunc.context_ids = Flatten(ContextSegs)
    /\ Len(trunc.label_ids) > 0

\* the share of the deficit the list of lines 277-280 holds for segment k, the
\* j-th truncatable segment of the record (pop takes the list from its end)
ShareOf(k) ==
    LET n == Len(cfg.truncation_fields)
        j == Cardinality({x \in Truncatable : x <= k})
    IN  (Deficit \div n) + (IF j - 1 < Deficit % n THEN 1 ELSE 0)

RankOf(k) == Cardinality({x \in Truncatable : x <= k})

\* every truncation field has a segment in the record
AllFieldsPresent == Cardinality(Truncatable) = Len(cfg.truncation_fields)

\* the deficit leaves a remainder when divided among the truncation fields
UnevenDeficit ==
    /\ OverBudget
    /\ Deficit % Len(cfg.truncation_fields) # 0

WithoutBlock(ids, o, n) == SubSeq(ids, 1, o) \o SubSeq(ids, o + n + 1, Len(ids))

NotClamped == Len(processed.assembled) <= cfg.max_seq_length

\* [x] if flag else []
Maybe(flag, x) == IF flag THEN <<x>> ELSE <<>>

----------------------------------------------------------------------------
(* Properties of _separate_template (SpecTemplate) *)

\* _separate_template was called and returned
TemplateSeparated == processed.err # "not called" /\ prompt_strings # <<>>

\* text carries no space at either end
NoOuterSpace(text) == text = <<>> \/ (text[1] # " " /\ text[Len(text)] # " ")

\* the context key whose placeholder starts at template position p (0-based),
\* or the sentinel when the bucket at p is literal text
KeyAt(p) ==
    LET tpl == cfg.prompt_template
        at == {i \in 1..Len(cfg.context_keys) :
                  Slice(tpl, p, p + 3) = Placeholder(cfg.context_keys[i])}
    IN  IF Slice(tpl, p, p + 3) = Placeholder(cfg.label_key) THEN cfg.label_key
        ELSE IF at = {} THEN TemplateKey
        ELSE cfg.context_keys[CHOOSE i \in at : TRUE]

\* the literal text of the template from position p up to the next placeholder
LiteralAt(p) ==
    LET tpl == cfg.prompt_template
        q == CHOOSE j \in p..Len(tpl) :
                 /\ j = Len(tpl) \/ tpl[j + 1] = "{"
                 /\ \A i \in p..(j - 1) : tpl[i + 1] # "{"
    IN  Slice(tpl, p, q)

\* the text the bucket at p resolves to, stripped
CoreAt(p) ==
    IF KeyAt(p) = TemplateKey THEN Strip(LiteralAt(p)) ELSE Strip(example[KeyAt(p)])

\* segment k is owed one leading space
OwedSpace(k) ==
    LET tpl == cfg.prompt_template
        p == prompt_starts[k]
    IN  /\ k > 1
        /\ cfg.space_sensitive
        /\ (p > 0 /\ tpl[p] = " ") \/ tpl[p + 1] = " "

DocExample == [a |-> <<"u", "v">>, b |-> <<"x", "y">>, l |-> <<"p">>]

----------------------------------------------------------------------------
(* Properties of collate_fn (SpecCollate) *)

\* collate_fn was called on the batch
Collated == collated.err # "not called"

\* the number of ones in a loss mask row
Ones(row) == Cardinality({k \in 1..Len(row) : row[k] = 1})

\* C4 as stated: the shifted loss mask of every example holds exactly
\* max(0, len(inputIds) - 1 - answerStartIdx) ones when answerOnlyLoss is set,
\* and consists only of ones, len(inputIds) - 1 of them (none for an empty
\* inputIds), otherwise.
C4_LossMaskOnesAsStated ==
    Collated =>
        \A i \in 1..Len(batch) :
            LET row == collated.loss_mask_rows[i]
                n == Len(batch[i].input_ids)
            IN  IF cfg.answer_only_loss
                THEN Ones(row) = Max(0, n - 1 - batch[i].answer_start_idx)
                ELSE Ones(row) = Len(row) /\ Len(row) = Max(0, n - 1)

\* C4 amended: the shifted loss mask of every example has max(0, len(inputIds)
\* - 1) entries; when answerOnlyLoss is set exactly max(0, len(inputIds)
\* - max(1, answerStartIdx)) of them are ones (one per input position from
\* answerStartIdx on, position 0 excepted), and otherwise all of them are.
C4_LossMaskOnes ==
    Collated =>
        \A i \in 1..Len(batch) :
            LET row == collated.loss_mask_rows[i]
                n == Len(batch[i].input_ids)
            IN  /\ Len(row) = Max(0, n - 1)
                /\ \A k \in 1..Len(row) : row[k] \in {0, 1}
                /\ IF cfg.answer_only_loss
                   THEN Ones(row) = Max(0, n - Max(1, batch[i].answer_start_idx))
                   ELSE Ones(row) = Len(row)

\* C4 witness: a batch of two, one example with context before the answer and
\* one whose answer starts at position 0
C4_Witness ==
    /\ Collated
    /\ cfg.answer_only_loss
    /\ Len(batch) = 2
    /\ \E i \in 1..Len(batch) :
          /\ batch[i].answer_start_idx >= 2
          /\ Len(batch[i].input_ids) > batch[i].answer_start_idx
          /\ Ones(collated.loss_mask_rows[i])
                = Len(batch[i].input_ids) - batch[i].answer_start_idx
    /\ \E i \in 1..Len(batch) :
          /\ batch[i].answer_start_idx = 0
          /\ Len(batch[i].input_ids) >= 2

\* the rows of one collated tensor are padded on the right to max_length
PaddedTo(rows, originals, pad_id) ==
    \A i \in 1..Len(rows) :
        /\ Len(rows[i]) = collated.max_length
        /\ \A k \in (Len(originals[i]) + 1)..Len(rows[i]) : rows[i][k] = pad_id

\* C5: for every non-empty batch every row of the collated tokens, labels,
\* loss_mask, contexts and answers has length exactly max_length, and every
\* position beyond a row's original length holds the EOS id (0 for loss_mask).
C5_RowsPaddedToMaxLength ==
    Collated =>
        /\ PaddedTo(collated.tokens,
                    [i \in 1..Len(batch) |->
                        Slice(batch[i].input_ids, 0, Len(batch[i].input_ids) - 1)], EosId)
        /\ PaddedTo(collated.labels,
                    [i \in 1..Len(batch) |-> Rest(batch[i].input_ids)], EosId)
        /\ PaddedTo(collated.loss_mask, collated.loss_mask_rows, 0)
        /\ PaddedTo(collated.contexts,
                    [i \in 1..Len(batch) |-> batch[i].context_ids], EosId)
        /\ PaddedTo(collated.answers,
                    [i \in 1..Len(batch) |-> batch[i].answer_ids], EosId)

----------------------------------------------------------------------------
(* Properties of construction (SpecConfig) *)

\* __init__ has run
Constructed == constructed # "not constructed"

\* the number of places of s where sub occurs
Occurrences(s, sub) ==
    Cardinality({i \in 0..(Len(s) - Len(sub)) : Slice(s, i, i + Len(sub)) = sub})

\* the label placeholder is missing from the template
LabelMissing(c) == Occurrences(c.prompt_template, Placeholder(c.label_key)) = 0

\* the template does not end with the label placeholder
LabelNotLast(c) ==
    LET tpl == c.prompt_template
    IN  Len(tpl) < 3 \/ Slice(tpl, Len(tpl) - 3, Len(tpl)) # Placeholder(c.label_key)

\* a context placeholder is missing from the template
ContextMissing(c) ==
    \E i \in 1..Len(c.context_keys) :
        Occurrences(c.prompt_template, Placeholder(c.context_keys[i])) = 0

\* a context placeholder occurs more than once in the template
ContextTwice(c) ==
    \E i \in 1..Len(c.context_keys) :
        Occurrences(c.prompt_template, Placeholder(c.context_keys[i])) > 1

\* the truncation fields are not all context fields
FieldsNotContext(c) == ~(SetOf(c.truncation_fields) \subseteq SetOf(c.context_keys))

\* the truncation method is none of left, right, random
MethodUnknown(c) == c.truncation_method \notin {"left", "right", "random"}

ConfigFault(c) ==
    \/ LabelMissing(c) \/ LabelNotLast(c)
    \/ ContextMissing(c) \/ ContextTwice(c)
    \/ FieldsNotContext(c)
    \/ MethodUnknown(c)

----------------------------------------------------------------------------
(* Properties of collate_fn's padded length (SpecMaxLength) *)

\* max(max_i len(inputIds_i) - 1, max_i len(contextIds_i) + tokensToGenerate)
LongestRow ==
    Max(MaxOf([i \in 1..Len(batch) |-> Len(batch[i].input_ids) - 1]),
        MaxOf([i \in 1..Len(batch) |-> Len(batch[i].context_ids)])
            + cfg.tokens_to_generate)

\* the smallest multiple of 8 that is >= n, for n >= 0
NextMultipleOf8(n) ==
    CHOOSE m \in n..(n + 7) : m % 8 = 0

\* C15: for every non-empty batch, the max_length computed by collate_fn is
\* maxSeqLength when padToMaxLength is set, and otherwise min(maxSeqLength,
\* the smallest multiple of 8 that is >= max(max_i len(inputIds_i) - 1,
\* max_i len(contextIds_i) + tokensToGenerate)); in both cases max_length <=
\* maxSeqLength and the assertion on that bound never fails.
C15_MaxLengthOfBatch ==
    Collated =>
        /\ collated.max_length =
              IF cfg.pad_to_max_length THEN cfg.max_seq_length
              ELSE Min(cfg.max_seq_length, NextMultipleOf8(LongestRow))
        /\ collated.max_length <= cfg.max_seq_length
        /\ collated.err # "assert max_length <= max_seq_length"

\* C15 witness: a batch of two examples of different lengths, the longer one
\* not a multiple of 8 long, padded to 8 under a larger maxSeqLength
C15_Witness ==
    /\ Collated
    /\ ~cfg.pad_to_max_length
    /\ Len(batch) = 2
    /\ Len(batch[1].input_ids) # Len(batch[2].input_ids)
    /\ LongestRow % 8 # 0
    /\ collated.max_length = 8
    /\ cfg.max_seq_length > 8

=============================================================================
